---- MODULE Spec2Model ----
\* Model of taipy.core._version._VersionFSRepository: the operations on
\* the shared pointer file version.json (latest / development / production
\* version ids), one action per method, single writer.
EXTENDS Integers, Sequences, FiniteSets, TLC

\* ---------------------------------------------------------------- bounds
\* number of distinct version ids the caller may pass
NumIds == 3
\* number of calls, counted from the fresh storage root, that are recorded
\* in the call log `calls` (later calls are still made, but not logged)
MaxCalls == 3
\* number of calls the concurrent writers start, all writers together
MaxConcCalls == 3

IdNames == <<"a", "b", "c", "d", "e", "f">>
Ids == {IdNames[i] : i \in 1..NumIds}

\* ------------------------------------------------------------- constants
_LATEST_VERSION_KEY == "latest_version"
_DEVELOPMENT_VERSION_KEY == "development_version"
_PRODUCTION_VERSION_KEY == "production_version"

\* exceptions a call can end with; None: the call returned normally
None == "None"
FileNotFoundError == "FileNotFoundError"
VersionIsNotProductionVersion == "VersionIsNotProductionVersion"

\* ------------------------------------------------------------ json, dict
\* order in which the keys of the document are written (the insertion order
\* of the dict literals, kept by json.load and by item assignment)
KeyOrder == <<_LATEST_VERSION_KEY, _DEVELOPMENT_VERSION_KEY, _PRODUCTION_VERSION_KEY>>

\* json.dumps(file_content, ...): the text is the sequence of the dict's
\* key/value members
json_dumps(d) ==
  LET ks == SelectSeq(KeyOrder, LAMBDA k : k \in DOMAIN d)
  IN  [i \in 1..Len(ks) |-> <<ks[i], d[ks[i]]>>]

\* json.load(f): the dict whose keys are the members' names
json_load(text) ==
  LET keys == {text[i][1] : i \in DOMAIN text}
  IN  [k \in keys |-> text[CHOOSE i \in DOMAIN text : text[i][1] = k][2]]

\* file_content[k] = v
DictSet(d, k, v) == [x \in (DOMAIN d) \cup {k} |-> IF x = k THEN v ELSE d[x]]

\* v in l (python list membership)
InList(v, l) == \E i \in 1..Len(l) : l[i] = v

\* variant: the first element is removed, whatever it is (l.pop(0))
ListRemove_pop_first(l, v) == [k \in 1..(Len(l)-1) |-> l[k+1]]

\* l.remove(v): removes the first occurrence of v (v is in l)
ListRemove(l, v) ==
  LET i == CHOOSE j \in 1..Len(l) : l[j] = v /\ \A k \in 1..(j-1) : l[k] # v
  IN  [k \in 1..(Len(l)-1) |-> IF k < i THEN l[k] ELSE l[k+1]]

\* ------------------------------------------------------------ filesystem
\* the file <dir_path>/version.json: whether it exists, and its text
NoFile == [exists |-> FALSE, text |-> <<>>]

\* self._version_file_path.exists()
exists(vf) == vf.exists

\* self._version_file_path.write_text(text): creates or replaces the file
write_text(vf, text) == [exists |-> TRUE, text |-> text]

VARIABLES
  version_file,  \* the pointer file on disk
  pre,           \* the pointer file as it was before the last call
  op,            \* the method called last ("init": none yet)
  arg,           \* its version_number argument (None for a getter)
  raised,        \* the exception it ended with, or None
  ret,           \* the value it returned (None: nothing returned)
  calls,         \* log of the first MaxCalls calls since the fresh root
  tracked,       \* TRUE while `calls` is the complete history
  written,       \* the texts the last call passed to write_text, in order
  last_setter,   \* version_number of the most recent setter call (None: none)
  last_development, \* version_number of the most recent
                 \* _set_development_version call ("": none)
  inserted       \* ids whose last successful production call was an
                 \* insertion, in the order of the inserting calls

\* the single-writer view: the file and the record of the calls made on it
call_vars == <<version_file, pre, op, arg, raised, ret, calls, tracked,
               written, last_setter, last_development, inserted>>

\* what the single-writer calls record beside the file
call_record == <<pre, op, arg, raised, ret, calls, tracked,
                 written, last_setter, last_development, inserted>>

VARIABLES
  pc,            \* per concurrent writer: "idle", "write" (it has read and
                 \* computed, write_text is still to come) or "done"
  local,         \* per concurrent writer: the method it runs, its argument,
                 \* the texts it is going to write, the exception raised
  started,       \* number of concurrent calls started so far
  last_write     \* the concurrent call whose write_text came last

conc_vars == <<pc, local, started, last_write>>

VARIABLES
  codec_stage,   \* "none", "version" (an entity exists), "model" (_to_model
                 \* was applied) or "decoded" (_from_model was applied)
  version,       \* the _Version entity
  model,         \* the _VersionModel made from it
  decoded        \* the _Version made from the model

codec_vars == <<codec_stage, version, model, decoded>>

vars == <<call_vars, conc_vars, codec_vars>>

\* ------------------------------------------------- file content per method
\* variant: the creating branch leaves the production list out
new_latest_content_no_production(v) ==
  [k \in {_LATEST_VERSION_KEY, _DEVELOPMENT_VERSION_KEY} |->
     IF k = _LATEST_VERSION_KEY THEN v ELSE ""]

\* the dict created by _set_latest_version when the file does not exist
new_latest_content(v) ==
  [k \in {_LATEST_VERSION_KEY, _DEVELOPMENT_VERSION_KEY, _PRODUCTION_VERSION_KEY} |->
     IF k = _LATEST_VERSION_KEY THEN v
     ELSE IF k = _DEVELOPMENT_VERSION_KEY THEN "" ELSE <<>>]

\* the dict created by _set_development_version when the file does not exist
new_development_content(v) ==
  [k \in {_LATEST_VERSION_KEY, _DEVELOPMENT_VERSION_KEY, _PRODUCTION_VERSION_KEY} |->
     IF k = _LATEST_VERSION_KEY THEN v
     ELSE IF k = _DEVELOPMENT_VERSION_KEY THEN v ELSE <<>>]

\* variant: the creating branch also makes the id the development version
new_production_content_sets_development(v) ==
  [k \in {_LATEST_VERSION_KEY, _DEVELOPMENT_VERSION_KEY, _PRODUCTION_VERSION_KEY} |->
     IF k = _PRODUCTION_VERSION_KEY THEN <<v>> ELSE v]

\* the dict created by _set_production_version when the file does not exist
new_production_content(v) ==
  [k \in {_LATEST_VERSION_KEY, _DEVELOPMENT_VERSION_KEY, _PRODUCTION_VERSION_KEY} |->
     IF k = _LATEST_VERSION_KEY THEN v
     ELSE IF k = _DEVELOPMENT_VERSION_KEY THEN "" ELSE <<v>>]

\* variant: the assignment of the development key is copied in as well
update_latest_content_sets_development(fc, v) ==
  DictSet(DictSet(fc, _LATEST_VERSION_KEY, v), _DEVELOPMENT_VERSION_KEY, v)

\* _set_latest_version, file exists: the loaded dict after the assignment
update_latest_content(fc, v) == DictSet(fc, _LATEST_VERSION_KEY, v)

\* variant: a new development version starts with no production versions
update_development_content_resets_production(fc, v) ==
  DictSet(DictSet(DictSet(fc, _DEVELOPMENT_VERSION_KEY, v), _LATEST_VERSION_KEY, v),
          _PRODUCTION_VERSION_KEY, <<>>)

\* variant: only the development key is assigned
update_development_content_keeps_latest(fc, v) ==
  DictSet(fc, _DEVELOPMENT_VERSION_KEY, v)

\* _set_development_version, file exists: the two assignments
update_development_content(fc, v) ==
  DictSet(DictSet(fc, _DEVELOPMENT_VERSION_KEY, v), _LATEST_VERSION_KEY, v)

\* variant: the id is appended without the membership test
update_production_content_always_append(fc, v) ==
  LET fc1 == DictSet(fc, _LATEST_VERSION_KEY, v)
  IN  DictSet(fc1, _PRODUCTION_VERSION_KEY, Append(fc1[_PRODUCTION_VERSION_KEY], v))

\* variant: a new id is inserted at the front of the list
update_production_content_prepend(fc, v) ==
  LET fc1 == DictSet(fc, _LATEST_VERSION_KEY, v)
  IN  IF ~InList(v, fc1[_PRODUCTION_VERSION_KEY])
      THEN DictSet(fc1, _PRODUCTION_VERSION_KEY, <<v>> \o fc1[_PRODUCTION_VERSION_KEY])
      ELSE fc1

\* variant: the membership test is replaced by a comparison with latest
update_production_content_append_if_not_latest(fc, v) ==
  IF fc[_LATEST_VERSION_KEY] # v
  THEN DictSet(DictSet(fc, _LATEST_VERSION_KEY, v),
               _PRODUCTION_VERSION_KEY, Append(fc[_PRODUCTION_VERSION_KEY], v))
  ELSE fc

\* variant: latest is assigned only when the id is new
update_production_content_latest_if_new(fc, v) ==
  IF ~InList(v, fc[_PRODUCTION_VERSION_KEY])
  THEN DictSet(DictSet(fc, _LATEST_VERSION_KEY, v),
               _PRODUCTION_VERSION_KEY, Append(fc[_PRODUCTION_VERSION_KEY], v))
  ELSE fc

\* _set_production_version, file exists: latest is assigned, the id is
\* appended unless it is in the list already (then only a log line)
update_production_content(fc, v) ==
  LET fc1 == DictSet(fc, _LATEST_VERSION_KEY, v)
  IN  IF ~InList(v, fc1[_PRODUCTION_VERSION_KEY])
      THEN DictSet(fc1, _PRODUCTION_VERSION_KEY, Append(fc1[_PRODUCTION_VERSION_KEY], v))
      ELSE fc1

\* variant: after the removal latest falls back to the last production id
delete_production_content_latest_falls_back(fc, v) ==
  LET l == ListRemove(fc[_PRODUCTION_VERSION_KEY], v)
      fc1 == DictSet(fc, _PRODUCTION_VERSION_KEY, l)
  IN  IF l # <<>> THEN DictSet(fc1, _LATEST_VERSION_KEY, l[Len(l)]) ELSE fc1

\* variant: removing the latest version also clears the latest pointer
delete_production_content_clears_latest(fc, v) ==
  LET fc1 == DictSet(fc, _PRODUCTION_VERSION_KEY, ListRemove(fc[_PRODUCTION_VERSION_KEY], v))
  IN  IF fc[_LATEST_VERSION_KEY] = v THEN DictSet(fc1, _LATEST_VERSION_KEY, "") ELSE fc1

\* _delete_production_version, id in the list: the list after remove()
delete_production_content(fc, v) ==
  DictSet(fc, _PRODUCTION_VERSION_KEY, ListRemove(fc[_PRODUCTION_VERSION_KEY], v))

\* ----------------------------------------------- file after a whole method
\* the file after the write_text calls of one method, made in order
RECURSIVE ApplyWrites(_, _)
ApplyWrites(vf, texts) ==
  IF texts = <<>> THEN vf
  ELSE ApplyWrites(write_text(vf, Head(texts)), Tail(texts))

\* the texts _set_latest_version passes to write_text: one, after the if/else
set_latest_writes(vf, v) ==
  << json_dumps(IF exists(vf) THEN update_latest_content(json_load(vf.text), v)
                ELSE new_latest_content(v)) >>

set_latest_file(vf, v) == ApplyWrites(vf, set_latest_writes(vf, v))

set_development_writes(vf, v) ==
  << json_dumps(IF exists(vf) THEN update_development_content(json_load(vf.text), v)
                ELSE new_development_content(v)) >>

set_development_file(vf, v) == ApplyWrites(vf, set_development_writes(vf, v))

set_production_writes(vf, v) ==
  << json_dumps(IF exists(vf) THEN update_production_content(json_load(vf.text), v)
                ELSE new_production_content(v)) >>

set_production_file(vf, v) == ApplyWrites(vf, set_production_writes(vf, v))

\* variant: no except clause, the FileNotFoundError of open() propagates
delete_production_raises_no_except(vf, v) ==
  IF ~exists(vf) THEN FileNotFoundError
  ELSE IF ~InList(v, json_load(vf.text)[_PRODUCTION_VERSION_KEY])
       THEN VersionIsNotProductionVersion
       ELSE None

\* the exception _delete_production_version ends with on file vf
delete_production_raises(vf, v) ==
  IF ~exists(vf) THEN VersionIsNotProductionVersion   \* except FileNotFoundError
  ELSE IF ~InList(v, json_load(vf.text)[_PRODUCTION_VERSION_KEY])
       THEN VersionIsNotProductionVersion
       ELSE None

\* variant: the document is written back before the membership test
delete_production_writes_before_test(vf, v) ==
  IF ~exists(vf) THEN <<>>
  ELSE IF delete_production_raises(vf, v) = None
       THEN << json_dumps(delete_production_content(json_load(vf.text), v)) >>
       ELSE << json_dumps(json_load(vf.text)) >>

\* the texts _delete_production_version passes to write_text: none when it
\* raises (the raise and the failing open() come before the write)
delete_production_writes(vf, v) ==
  IF delete_production_raises(vf, v) = None
  THEN << json_dumps(delete_production_content(json_load(vf.text), v)) >>
  ELSE <<>>

delete_production_file(vf, v) == ApplyWrites(vf, delete_production_writes(vf, v))

\* variant: a missing file is not an error for a getter
get_raises_never(vf) == None

\* the exception a getter ends with: open() of a missing file
get_raises(vf) == IF exists(vf) THEN None ELSE FileNotFoundError

\* the value a getter of key k returns
get_value(vf, k) == IF exists(vf) THEN json_load(vf.text)[k] ELSE None

\* ------------------------------------------------------------------ codec
\* A datetime is its attributes year, month, day, hour, minute, second,
\* microsecond and tzinfo; tzinfo is <<>> for a naive datetime and
\* <<utcoffset in minutes>> for an aware one.
Dates == { <<2022, 12, 31>>, <<2023, 1, 1>> }
Times == { <<23, 59, 59>> }
Microseconds == {0, 1, 999999}
TzInfos == { <<>>, <<0>>, <<60>>, <<-330>> }

DateTimes ==
  { [year |-> d[1], month |-> d[2], day |-> d[3],
     hour |-> t[1], minute |-> t[2], second |-> t[3],
     microsecond |-> us, tzinfo |-> tz] :
    d \in Dates, t \in Times, us \in Microseconds, tz \in TzInfos }

\* the configurations a version can carry (opaque to this class)
Configs == {"config1", "config2"}

\* datetime.isoformat(): YYYY-MM-DDTHH:MM:SS, then .ffffff unless the
\* microsecond is 0, then +HH:MM or -HH:MM unless the datetime is naive.
\* The text is the sequence of its parts.
isoformat(dt) ==
  << <<"date", dt.year, dt.month, dt.day>>,
     <<"time", dt.hour, dt.minute, dt.second>> >>
  \o (IF dt.microsecond # 0 THEN << <<"fraction", dt.microsecond>> >> ELSE <<>>)
  \o (IF dt.tzinfo # <<>>
      THEN LET off == dt.tzinfo[1]
               mag == IF off < 0 THEN -off ELSE off
           IN  << <<"offset", IF off < 0 THEN "-" ELSE "+", mag \div 60, mag % 60>> >>
      ELSE <<>>)

\* isoformat(timespec="seconds"): the microsecond is left out
isoformat_seconds(dt) ==
  << <<"date", dt.year, dt.month, dt.day>>,
     <<"time", dt.hour, dt.minute, dt.second>> >>
  \o (IF dt.tzinfo # <<>>
      THEN LET off == dt.tzinfo[1]
               mag == IF off < 0 THEN -off ELSE off
           IN  << <<"offset", IF off < 0 THEN "-" ELSE "+", mag \div 60, mag % 60>> >>
      ELSE <<>>)

\* datetime.fromisoformat(text): a missing fraction is microsecond 0, a
\* missing offset is a naive datetime
fromisoformat(text) ==
  LET Has(tag) == \E i \in DOMAIN text : text[i][1] = tag
      Part(tag) == text[CHOOSE i \in DOMAIN text : text[i][1] = tag]
  IN  [year |-> Part("date")[2], month |-> Part("date")[3], day |-> Part("date")[4],
       hour |-> Part("time")[2], minute |-> Part("time")[3], second |-> Part("time")[4],
       microsecond |-> IF Has("fraction") THEN Part("fraction")[2] ELSE 0,
       tzinfo |-> IF Has("offset")
                  THEN << (IF Part("offset")[2] = "-" THEN -1 ELSE 1)
                          * (Part("offset")[3] * 60 + Part("offset")[4]) >>
                  ELSE <<>>]

\* Config._to_json / Config._from_json: the serializer pair of the
\* configuration package, taken to be a round trip
Config_to_json(config) == <<"json", config>>
Config_from_json(json) == json[2]

\* variant: the timestamp is stored to the second
_to_model_seconds(v) ==
  [id |-> v.id, config |-> Config_to_json(v.config),
   creation_date |-> isoformat_seconds(v.creation_date)]

\* _to_model(version): the _VersionModel
_to_model(v) ==
  [id |-> v.id, config |-> Config_to_json(v.config),
   creation_date |-> isoformat(v.creation_date)]

\* _from_model(model): the _Version, its creation_date set from the model
_from_model(mdl) ==
  [id |-> mdl.id, config |-> Config_from_json(mdl.config),
   creation_date |-> fromisoformat(mdl.creation_date)]

\* no entity, no model yet
NoVersion == [id |-> None]
NoModel == [id |-> None]

\* ------------------------------------------------------------------ state
\* the processes that use the same storage root at the same time
Writers == {"w1", "w2"}

\* a writer's locals before its first call
NoCall == [method |-> "none", version_number |-> None, texts |-> <<>>,
           raised |-> None, stale |-> FALSE]

Init ==
  /\ version_file = NoFile
  /\ pre = NoFile
  /\ op = "init"
  /\ arg = None
  /\ raised = None
  /\ ret = None
  /\ calls = <<>>
  /\ tracked = TRUE
  /\ written = <<>>
  /\ last_setter = None
  /\ last_development = ""
  /\ inserted = <<>>
  /\ pc = [w \in Writers |-> "idle"]
  /\ local = [w \in Writers |-> NoCall]
  /\ started = 0
  /\ last_write = NoCall
  /\ codec_stage = "none"
  /\ version = NoVersion
  /\ model = NoModel
  /\ decoded = NoVersion

Setters == {"_set_latest_version", "_set_development_version", "_set_production_version"}
Getters == {"_get_latest_version", "_get_development_version", "_get_production_version"}

\* the record of what the calls so far asked for, kept beside the file: it
\* is computed from the calls and their outcome only, never from the file
History(name, v) ==
  /\ last_setter' = (IF name \in Setters THEN v ELSE last_setter)
  /\ last_development' = (IF name = "_set_development_version" THEN v
                          ELSE last_development)
  /\ inserted' =
       IF name = "_set_production_version" /\ raised' = None
       THEN (IF \E i \in 1..Len(inserted) : inserted[i] = v
             THEN inserted ELSE Append(inserted, v))
       ELSE IF name = "_delete_production_version" /\ raised' = None
            THEN SelectSeq(inserted, LAMBDA x : x # v)
            ELSE inserted

\* bookkeeping of a call: what was called, on which file, and the call log
Called(name, v) ==
  /\ pre' = version_file
  /\ op' = name
  /\ arg' = v
  /\ IF tracked /\ Len(calls) < MaxCalls
     THEN calls' = Append(calls, <<name, v>>) /\ tracked' = TRUE
     ELSE calls' = <<>> /\ tracked' = FALSE
  /\ History(name, v)
  /\ UNCHANGED <<conc_vars, codec_vars>>

set_latest_version(version_number) ==
  /\ version_file' = set_latest_file(version_file, version_number)
  /\ written' = set_latest_writes(version_file, version_number)
  /\ raised' = None
  /\ ret' = None
  /\ Called("_set_latest_version", version_number)

\* variant: the getter creates the document with defaults when it is missing
get_latest_version_creating ==
  /\ raised' = None
  /\ ret' = (IF exists(version_file) THEN get_value(version_file, _LATEST_VERSION_KEY) ELSE "")
  /\ version_file' = (IF exists(version_file) THEN version_file
                      ELSE write_text(version_file, json_dumps(new_latest_content(""))))
  /\ written' = (IF exists(version_file) THEN <<>>
                 ELSE << json_dumps(new_latest_content("")) >>)
  /\ Called("_get_latest_version", None)

get_latest_version ==
  /\ raised' = get_raises(version_file)
  /\ ret' = get_value(version_file, _LATEST_VERSION_KEY)
  /\ version_file' = version_file
  /\ written' = <<>>
  /\ Called("_get_latest_version", None)

set_development_version(version_number) ==
  /\ version_file' = set_development_file(version_file, version_number)
  /\ written' = set_development_writes(version_file, version_number)
  /\ raised' = None
  /\ ret' = None
  /\ Called("_set_development_version", version_number)

get_development_version ==
  /\ raised' = get_raises(version_file)
  /\ ret' = get_value(version_file, _DEVELOPMENT_VERSION_KEY)
  /\ version_file' = version_file
  /\ written' = <<>>
  /\ Called("_get_development_version", None)

set_production_version(version_number) ==
  /\ version_file' = set_production_file(version_file, version_number)
  /\ written' = set_production_writes(version_file, version_number)
  /\ raised' = None
  /\ ret' = None
  /\ Called("_set_production_version", version_number)

get_production_version ==
  /\ raised' = get_raises(version_file)
  /\ ret' = get_value(version_file, _PRODUCTION_VERSION_KEY)
  /\ version_file' = version_file
  /\ written' = <<>>
  /\ Called("_get_production_version", None)

delete_production_version(version_number) ==
  /\ raised' = delete_production_raises(version_file, version_number)
  /\ version_file' = delete_production_file(version_file, version_number)
  /\ written' = delete_production_writes(version_file, version_number)
  /\ ret' = None
  /\ Called("_delete_production_version", version_number)

Next ==
  \/ \E v \in Ids : set_latest_version(v)
  \/ get_latest_version
  \/ \E v \in Ids : set_development_version(v)
  \/ get_development_version
  \/ \E v \in Ids : set_production_version(v)
  \/ get_production_version
  \/ \E v \in Ids : delete_production_version(v)

Spec == Init /\ [][Next]_vars

\* ------------------------------------------------- concurrent writers
\* Each method is two steps: the read (exists(), json.load and the
\* computation of file_content, or the raise) and the write_text, which
\* replaces the whole file at once. Steps of different writers interleave.

\* a writer's read step: it keeps what it is going to write
c_begin(w, name, v, texts, exc) ==
  /\ pc[w] \in {"idle", "done"}
  /\ started < MaxConcCalls
  /\ started' = started + 1
  /\ local' = [local EXCEPT ![w] = [method |-> name, version_number |-> v,
                                     texts |-> texts, raised |-> exc,
                                     stale |-> FALSE]]
  /\ pc' = [pc EXCEPT ![w] = IF texts = <<>> THEN "done" ELSE "write"]
  /\ UNCHANGED <<version_file, last_write, call_record, codec_vars>>

c_set_latest_read(w, version_number) ==
  c_begin(w, "_set_latest_version", version_number,
          set_latest_writes(version_file, version_number), None)

c_set_development_read(w, version_number) ==
  c_begin(w, "_set_development_version", version_number,
          set_development_writes(version_file, version_number), None)

c_set_production_read(w, version_number) ==
  c_begin(w, "_set_production_version", version_number,
          set_production_writes(version_file, version_number), None)

c_delete_production_read(w, version_number) ==
  c_begin(w, "_delete_production_version", version_number,
          delete_production_writes(version_file, version_number),
          delete_production_raises(version_file, version_number))

\* a getter is a read step only
c_get(w, name) ==
  c_begin(w, name, None, <<>>, get_raises(version_file))

\* variant: the file is opened for exclusive creation, an existing file is
\* left as it is
c_write_create_only(w) ==
  /\ pc[w] = "write"
  /\ version_file' = (IF exists(version_file) THEN version_file
                      ELSE ApplyWrites(version_file, local[w].texts))
  /\ pc' = [pc EXCEPT ![w] = "done"]
  /\ last_write' = local[w]
  /\ local' = [u \in Writers |->
                IF u # w /\ pc[u] = "write" THEN [local[u] EXCEPT !.stale = TRUE]
                ELSE local[u]]
  /\ UNCHANGED <<started, call_record, codec_vars>>

\* a writer's write step: write_text of what it computed from its own read;
\* the other writers that have read and not yet written now hold a stale
\* document
c_write(w) ==
  /\ pc[w] = "write"
  /\ version_file' = ApplyWrites(version_file, local[w].texts)
  /\ pc' = [pc EXCEPT ![w] = "done"]
  /\ last_write' = local[w]
  /\ local' = [u \in Writers |->
                IF u # w /\ pc[u] = "write" THEN [local[u] EXCEPT !.stale = TRUE]
                ELSE local[u]]
  /\ UNCHANGED <<started, call_record, codec_vars>>

ConcNext ==
  \/ \E w \in Writers, v \in Ids : c_set_latest_read(w, v)
  \/ \E w \in Writers, v \in Ids : c_set_development_read(w, v)
  \/ \E w \in Writers, v \in Ids : c_set_production_read(w, v)
  \/ \E w \in Writers, v \in Ids : c_delete_production_read(w, v)
  \/ \E w \in Writers, name \in Getters : c_get(w, name)
  \/ \E w \in Writers : c_write(w)

ConcSpec == Init /\ [][ConcNext]_vars

\* ------------------------------------------------- entity codec
\* the caller makes a _Version
new_version(id, config, creation_date) ==
  /\ codec_stage \in {"none", "decoded"}
  /\ codec_stage' = "version"
  /\ version' = [id |-> id, config |-> config, creation_date |-> creation_date]
  /\ model' = NoModel
  /\ decoded' = NoVersion
  /\ UNCHANGED <<call_vars, conc_vars>>

to_model ==
  /\ codec_stage = "version"
  /\ model' = _to_model(version)
  /\ codec_stage' = "model"
  /\ UNCHANGED <<version, decoded, call_vars, conc_vars>>

from_model ==
  /\ codec_stage = "model"
  /\ decoded' = _from_model(model)
  /\ codec_stage' = "decoded"
  /\ UNCHANGED <<version, model, call_vars, conc_vars>>

\* the codec is used beside the pointer methods
CodecNext ==
  \/ \E id \in Ids, config \in Configs, creation_date \in DateTimes :
       new_version(id, config, creation_date)
  \/ to_model
  \/ from_model
  \/ \E v \in Ids : set_latest_version(v)

CodecSpec == Init /\ [][CodecNext]_vars

\* ------------------------------------------------- the pointer document
\* the three fields of the stored document and of the document before the
\* last call (read only where the file exists)
Doc == json_load(version_file.text)
PreDoc == json_load(pre.text)
latestVersion == Doc[_LATEST_VERSION_KEY]
developmentVersion == Doc[_DEVELOPMENT_VERSION_KEY]
productionVersions == Doc[_PRODUCTION_VERSION_KEY]
preLatest == PreDoc[_LATEST_VERSION_KEY]
preDevelopment == PreDoc[_DEVELOPMENT_VERSION_KEY]
preProduction == PreDoc[_PRODUCTION_VERSION_KEY]

\* number of positions of l that hold v
Occurrences(l, v) == Cardinality({i \in 1..Len(l) : l[i] = v})

\* ------------------------------------------------------------------ C1
\* C1: after any sequence of setLatest, setDevelopment, setProduction and
\* removeProduction calls from an absent pointer file, productionVersions
\* holds no id more than once.
C1_NoDuplicateProduction ==
  version_file.exists =>
    \A i, j \in 1..Len(productionVersions) :
      productionVersions[i] = productionVersions[j] => i = j

\* setProduction was called with an id that was already in a list of two
C1_Witness ==
  /\ op = "_set_production_version"
  /\ pre.exists
  /\ InList(arg, preProduction)
  /\ Len(productionVersions) >= 2

\* ------------------------------------------------------------------ C2
\* C2: if the pointer file exists, it holds the three fields latest_version,
\* development_version and production_version.
C2_AllFieldsPresent ==
  version_file.exists =>
    /\ {version_file.text[i][1] : i \in DOMAIN version_file.text}
         = {_LATEST_VERSION_KEY, _DEVELOPMENT_VERSION_KEY, _PRODUCTION_VERSION_KEY}
    /\ Len(version_file.text) = 3

\* the file was created by setLatest and has been rewritten by a setter of
\* another field
C2_Witness ==
  /\ tracked
  /\ Len(calls) = 2
  /\ calls[1][1] = "_set_latest_version"
  /\ calls[2][1] = "_set_production_version"
  /\ version_file.exists

\* ------------------------------------------------------------------ C3
\* C3: every setter takes Absent to Present and Present to Present; a getter
\* or removeProduction called in Absent fails and leaves the document
\* Absent; no call takes Present back to Absent.
C3_Lifecycle ==
  [][ /\ (op' \in Setters => version_file'.exists /\ raised' = None)
      /\ (~version_file.exists /\ op' \notin Setters
            => raised' # None /\ ~version_file'.exists)
      /\ (version_file.exists => version_file'.exists) ]_vars

\* removeProduction was called on an absent file, which is still absent
C3_Witness ==
  /\ op = "_delete_production_version"
  /\ ~pre.exists
  /\ raised # None
  /\ ~version_file.exists

\* ------------------------------------------------------------------ C4
\* C4: setProduction(v) on a Present document sets latestVersion to v, keeps
\* developmentVersion, and when v is not yet a production id yields the
\* previous list with v appended last; on an Absent document it creates
\* latest = v, development = "", production = [v]. So setProduction(a),
\* setProduction(b) on a fresh root makes getProduction() return [a, b].
C4_SetProduction ==
  /\ op = "_set_production_version" /\ pre.exists =>
       /\ latestVersion = arg
       /\ developmentVersion = preDevelopment
       /\ ~InList(arg, preProduction) =>
            /\ Len(productionVersions) = Len(preProduction) + 1
            /\ productionVersions[Len(productionVersions)] = arg
            /\ \A i \in 1..Len(preProduction) : productionVersions[i] = preProduction[i]
  /\ op = "_set_production_version" /\ ~pre.exists =>
       /\ version_file.exists
       /\ latestVersion = arg
       /\ developmentVersion = ""
       /\ productionVersions = <<arg>>
  /\ \A a, b \in Ids :
       tracked /\ a # b
         /\ calls = << <<"_set_production_version", a>>,
                       <<"_set_production_version", b>>,
                       <<"_get_production_version", None>> >>
       => raised = None /\ ret = <<a, b>>

\* setProduction(a), setProduction(b), getProduction() on a fresh root
C4_Witness ==
  /\ tracked
  /\ calls = << <<"_set_production_version", IdNames[1]>>,
                <<"_set_production_version", IdNames[2]>>,
                <<"_get_production_version", None>> >>

\* ------------------------------------------------------------------ C5
\* C5: setProduction(v) with v already a production id raises nothing, keeps
\* productionVersions and developmentVersion, and sets latestVersion to v;
\* a second setProduction(v) in a row leaves the document as the first one
\* did, with v exactly once in the list.
C5_DuplicateProduction ==
  /\ op = "_set_production_version" /\ pre.exists /\ InList(arg, preProduction) =>
       /\ raised = None
       /\ productionVersions = preProduction
       /\ developmentVersion = preDevelopment
       /\ latestVersion = arg
  /\ op = "_set_production_version" =>
       /\ set_production_file(version_file, arg) = version_file
       /\ Occurrences(productionVersions, arg) = 1

\* setProduction was called with an id that was a production id but not
\* the latest version
C5_Witness ==
  /\ op = "_set_production_version"
  /\ pre.exists
  /\ InList(arg, preProduction)
  /\ preLatest # arg
  /\ latestVersion = arg

\* ------------------------------------------------------------------ C6
\* C6: setDevelopment(v) sets developmentVersion and latestVersion to v and
\* keeps productionVersions on a Present document; on an Absent one it
\* creates latest = development = v, production = []. After
\* setProduction(p1), setDevelopment(d1): getLatest() = d1 and
\* getProduction() contains p1.
C6_SetDevelopment ==
  /\ op = "_set_development_version" =>
       /\ raised = None
       /\ version_file.exists
       /\ latestVersion = arg
       /\ developmentVersion = arg
       /\ productionVersions = (IF pre.exists THEN preProduction ELSE <<>>)
  /\ \A p, d \in Ids :
       /\ tracked /\ calls = << <<"_set_production_version", p>>,
                               <<"_set_development_version", d>>,
                               <<"_get_latest_version", None>> >>
            => raised = None /\ ret = d
       /\ tracked /\ calls = << <<"_set_production_version", p>>,
                               <<"_set_development_version", d>>,
                               <<"_get_production_version", None>> >>
            => raised = None /\ InList(p, ret)

\* setProduction(p1), setDevelopment(d1), getProduction() on a fresh root
C6_Witness ==
  /\ tracked
  /\ calls = << <<"_set_production_version", IdNames[1]>>,
                <<"_set_development_version", IdNames[2]>>,
                <<"_get_production_version", None>> >>

\* ------------------------------------------------------------------ C7
\* C7: setLatest(v) never fails; on a Present document it changes only
\* latestVersion; on an Absent one it creates latest = v, development = "",
\* production = [].
C7_SetLatest ==
  op = "_set_latest_version" =>
    /\ raised = None
    /\ version_file.exists
    /\ latestVersion = arg
    /\ developmentVersion = (IF pre.exists THEN preDevelopment ELSE "")
    /\ productionVersions = (IF pre.exists THEN preProduction ELSE <<>>)

\* setLatest was called with a new id on a document that had a development
\* version and production versions
C7_Witness ==
  /\ op = "_set_latest_version"
  /\ pre.exists
  /\ preDevelopment # ""
  /\ preProduction # <<>>
  /\ preLatest # arg
  /\ preDevelopment # arg

\* ------------------------------------------------------------------ C8
\* C8: removeProduction(v) fails with NotAProductionVersion when v is not in
\* productionVersions and when the pointer file does not exist, and then the
\* stored state is what it was (no file created, no field changed); a second
\* removeProduction(v) right after a successful one fails.
C8_RemoveFails ==
  /\ op = "_delete_production_version"
       /\ (~pre.exists \/ ~InList(arg, preProduction)) =>
       /\ raised = VersionIsNotProductionVersion
       /\ version_file = pre
  /\ op = "_delete_production_version" /\ raised = None =>
       /\ delete_production_raises(version_file, arg) = VersionIsNotProductionVersion
       /\ delete_production_file(version_file, arg) = version_file
  /\ \A v \in Ids :
       tracked /\ calls = << <<"_set_production_version", v>>,
                             <<"_delete_production_version", v>>,
                             <<"_delete_production_version", v>> >>
       => raised = VersionIsNotProductionVersion /\ version_file = pre

\* setProduction(v), removeProduction(v), removeProduction(v) on a fresh root
C8_Witness ==
  /\ tracked
  /\ calls = << <<"_set_production_version", IdNames[1]>>,
                <<"_delete_production_version", IdNames[1]>>,
                <<"_delete_production_version", IdNames[1]>> >>
  /\ raised = VersionIsNotProductionVersion

\* ------------------------------------------------------------------ C9
\* C9: a successful removeProduction(v) yields productionVersions without v,
\* every other id in its previous relative order, and leaves latestVersion
\* and developmentVersion unchanged, also when latestVersion = v.
C9_RemoveSucceeds ==
  op = "_delete_production_version" /\ pre.exists /\ InList(arg, preProduction) =>
    /\ raised = None
    /\ ~InList(arg, productionVersions)
    /\ productionVersions = SelectSeq(preProduction, LAMBDA x : x # arg)
    /\ latestVersion = preLatest
    /\ developmentVersion = preDevelopment

\* the middle one of three production ids, which was also the latest
\* version, has been removed
C9_Witness ==
  /\ op = "_delete_production_version"
  /\ raised = None
  /\ pre.exists
  /\ Len(preProduction) = 3
  /\ preProduction[2] = arg
  /\ preLatest = arg
  /\ Len(productionVersions) = 2

\* ------------------------------------------------------------------ C10
\* C10: getLatest, getDevelopment and getProduction fail with
\* PointerFileNotFound (python: FileNotFoundError) on an Absent document,
\* substitute no default and create no document; on a Present one they
\* return the stored latestVersion, developmentVersion, productionVersions.
C10_Getters ==
  op \in Getters =>
    IF ~pre.exists
    THEN /\ raised = FileNotFoundError
         /\ ret = None
         /\ ~version_file.exists
    ELSE /\ raised = None
         /\ version_file = pre
         /\ (op = "_get_latest_version" => ret = latestVersion)
         /\ (op = "_get_development_version" => ret = developmentVersion)
         /\ (op = "_get_production_version" => ret = productionVersions)

\* a getter was called on a fresh root and failed
C10_Witness ==
  /\ op \in Getters
  /\ ~pre.exists
  /\ raised = FileNotFoundError
  /\ ~version_file.exists

\* ------------------------------------------------------------------ C11
\* C11: once a setter has been called, latestVersion is the argument of the
\* most recent setter call (setLatest, setDevelopment or setProduction),
\* whatever removeProduction or getter calls came after it.
C11_LatestIsLastSetter ==
  /\ last_setter # None => version_file.exists /\ latestVersion = last_setter
  /\ version_file.exists => last_setter # None

\* the version that is latest has just been removed from production
C11_Witness ==
  /\ op = "_delete_production_version"
  /\ raised = None
  /\ preLatest = arg
  /\ productionVersions # <<>>
  /\ last_setter = arg

\* ------------------------------------------------------------------ C14
\* C14: every pointer operation is attempted once: a successful setter and
\* a successful removeProduction make exactly one write of the whole
\* document, a getter and a failing removeProduction make none.
C14_OneWrite ==
  /\ Len(written) <= 1
  /\ op \in Setters \/ (op = "_delete_production_version" /\ raised = None) =>
       /\ Len(written) = 1
       /\ version_file.exists
       /\ version_file.text = written[1]
       /\ {written[1][i][1] : i \in DOMAIN written[1]}
            = {_LATEST_VERSION_KEY, _DEVELOPMENT_VERSION_KEY, _PRODUCTION_VERSION_KEY}
  /\ op \in Getters \/ (op = "_delete_production_version" /\ raised # None) =>
       /\ written = <<>>
       /\ version_file = pre

\* a failing removeProduction(b) was followed by a successful removeProduction(a)
C14_Witness ==
  /\ tracked
  /\ calls = << <<"_set_production_version", IdNames[1]>>,
                <<"_delete_production_version", IdNames[2]>>,
                <<"_delete_production_version", IdNames[1]>> >>
  /\ raised = None
  /\ Len(written) = 1

\* ------------------------------------------------------------------ C16
\* C16: developmentVersion changes only through setDevelopment: on a Present
\* document it is the argument of the most recent setDevelopment call, or ""
\* when the document was created by setLatest or setProduction and
\* setDevelopment was never called.
C16_DevelopmentOnlyBySetDevelopment ==
  /\ version_file.exists => developmentVersion = last_development
  /\ ~version_file.exists => last_development = ""
  /\ op # "_set_development_version" /\ pre.exists => developmentVersion = preDevelopment

\* setProduction of another id was called on a document that has a
\* development version
C16_Witness ==
  /\ op = "_set_production_version"
  /\ pre.exists
  /\ last_development # ""
  /\ last_development # arg
  /\ developmentVersion = last_development

\* ------------------------------------------------------------------ C17
\* C17: on a Present document in which v is not a production id,
\* setProduction(v) followed at once by removeProduction(v) succeeds and
\* gives back the productionVersions and developmentVersion of before the
\* pair; latestVersion is v.
C17_SetThenRemove ==
  /\ op = "_set_production_version" /\ pre.exists /\ ~InList(arg, preProduction) =>
       /\ delete_production_raises(version_file, arg) = None
       /\ LET d == json_load(delete_production_file(version_file, arg).text)
          IN  /\ d[_PRODUCTION_VERSION_KEY] = preProduction
              /\ d[_DEVELOPMENT_VERSION_KEY] = preDevelopment
              /\ d[_LATEST_VERSION_KEY] = arg
  /\ \A u, v \in Ids :
       /\ tracked /\ u # v
            /\ calls = << <<"_set_production_version", u>>,
                          <<"_set_production_version", v>>,
                          <<"_delete_production_version", v>> >>
          => /\ raised = None
             /\ productionVersions = <<u>>
             /\ developmentVersion = ""
             /\ latestVersion = v
       /\ tracked
            /\ calls = << <<"_set_development_version", u>>,
                          <<"_set_production_version", v>>,
                          <<"_delete_production_version", v>> >>
          => /\ raised = None
             /\ productionVersions = <<>>
             /\ developmentVersion = u
             /\ latestVersion = v

\* setProduction(b), removeProduction(b) on the document setProduction(a) made
C17_Witness ==
  /\ tracked
  /\ calls = << <<"_set_production_version", IdNames[1]>>,
                <<"_set_production_version", IdNames[2]>>,
                <<"_delete_production_version", IdNames[2]>> >>
  /\ raised = None

\* ------------------------------------------------------------------ C18
\* C18: with a single writer productionVersions is the list of the ids whose
\* most recent successful production call was setProduction rather than
\* removeProduction, in the order of the setProduction calls that inserted
\* them; setLatest and setDevelopment add and remove no production id.
C18_ProductionIsInsertionLog ==
  /\ version_file.exists => productionVersions = inserted
  /\ ~version_file.exists => inserted = <<>>
  /\ op \in {"_set_latest_version", "_set_development_version"} /\ pre.exists =>
       productionVersions = preProduction

\* the first of three production ids has been removed: the two others stay
\* in their insertion order
C18_Witness ==
  /\ op = "_delete_production_version"
  /\ raised = None
  /\ Len(preProduction) = 3
  /\ preProduction[1] = arg
  /\ Len(inserted) = 2
  /\ productionVersions = inserted

\* ------------------------------------------------------------------ C12
\* C12: with two writers whose read and write steps interleave, an update
\* can be lost: both calls complete without error and the final document
\* is the one the last writer computed from its own read, so it reflects
\* the last writer's change only (after two setProduction calls with
\* different ids, one id is missing from productionVersions).
C12_LastWriterWins ==
  last_write.method # "none" =>
    /\ version_file.exists
    /\ last_write.raised = None
    /\ version_file.text = last_write.texts[1]
    /\ last_write.method \in Setters => latestVersion = last_write.version_number
    /\ last_write.method = "_set_development_version" =>
         developmentVersion = last_write.version_number
    /\ last_write.method = "_set_production_version" =>
         \E i \in 1..Len(productionVersions) :
           productionVersions[i] = last_write.version_number
    /\ last_write.method = "_delete_production_version" =>
         \A i \in 1..Len(productionVersions) :
           productionVersions[i] # last_write.version_number

\* two setProduction calls with different ids, and no other call, have
\* completed without error; the writer that wrote last had read before the
\* other one wrote, and the other one's id is not in productionVersions
C12_Witness ==
  /\ started = 2
  /\ \E w1, w2 \in Writers :
       /\ w1 # w2
       /\ pc[w1] = "done" /\ pc[w2] = "done"
       /\ local[w1].method = "_set_production_version"
       /\ local[w2].method = "_set_production_version"
       /\ local[w1].raised = None /\ local[w2].raised = None
       /\ local[w1].version_number # local[w2].version_number
       /\ last_write = local[w2]
       /\ last_write.stale
       /\ productionVersions = <<local[w2].version_number>>

\* ------------------------------------------------------------------ C15
\* C15: however the read and write steps of concurrent pointer operations
\* interleave (each write replacing the whole file), the stored
\* productionVersions never holds an id twice: every text written, and every
\* text about to be written, carries a duplicate-free list.
NoDuplicates(l) == \A i, j \in 1..Len(l) : l[i] = l[j] => i = j

C15_NoDuplicateConcurrent ==
  /\ version_file.exists => NoDuplicates(productionVersions)
  /\ \A w \in Writers :
       pc[w] = "write" =>
         NoDuplicates(json_load(local[w].texts[1])[_PRODUCTION_VERSION_KEY])

\* two writers read the same document and both appended the same id; the
\* one that wrote last wrote over the other's write
C15_Witness ==
  /\ \E w1, w2 \in Writers :
       /\ w1 # w2
       /\ pc[w1] = "done" /\ pc[w2] = "done"
       /\ local[w1].method = "_set_production_version"
       /\ local[w2].method = "_set_production_version"
       /\ local[w1].version_number = local[w2].version_number
       /\ last_write = local[w2]
       /\ last_write.stale
  /\ version_file.exists
  /\ Len(productionVersions) = 2
  /\ productionVersions[2] = last_write.version_number

\* ------------------------------------------------------------------ C13
\* C13: for every VersionEntity e, fromRecord(toRecord(e)) has e's id, e's
\* config (the config serializer pair being a round trip) and e's
\* creationDate; toRecord and fromRecord do not touch the pointer document.
C13_RoundTrip ==
  /\ [](codec_stage = "decoded" =>
          /\ decoded.id = version.id
          /\ decoded.config = version.config
          /\ decoded.creation_date = version.creation_date
          /\ decoded = _from_model(_to_model(version)))
  /\ [][codec_stage' \in {"model", "decoded"} /\ codec_stage' # codec_stage
          => version_file' = version_file]_vars

\* an entity with a microsecond and a negative utc offset went through
\* _to_model and _from_model while the pointer document existed
C13_Witness ==
  /\ codec_stage = "decoded"
  /\ version.creation_date.microsecond = 999999
  /\ version.creation_date.tzinfo = <<-330>>
  /\ decoded.creation_date = version.creation_date
  /\ version_file.exists
  /\ latestVersion = version.id

====
